---- MODULE Spec2Model ----
(***************************************************************************)
(* Multi-agent orchestration of crewai-multi-agent-cookbook/orchestration  *)
(* (the wealth-management-agent copy has the same structure under other    *)
(* names): analysis, routing, bounded delegation, execution, synthesis.    *)
(* One action per external call the orchestrator waits for, together with  *)
(* the code that runs until the next external call.                        *)
(***************************************************************************)
EXTENDS Integers, Sequences, FiniteSets, TLC

VARIABLES
    pc,                  \* where the orchestrator is waiting
    runs,                \* orchestrate calls made on this orchestrator object
    query,               \* argument of the current orchestrate call
    decomposition,       \* <<>> or <<TaskDecomposition>>
    execution_plan,      \* [parallel_groups, task_assignments]
    idx,                 \* loop index of create_execution_plan / _execute_task_plan
    results,             \* dict task id -> result record of _execute_task_plan
    frame,               \* [agent_name, depth] of the innermost coordinate call
    calls,               \* coordinate calls nested in the current top-level call
    delegation,          \* <<>> (None) or <<DelegationDecision>>: last return of evaluate_delegation_need
    delegation_history,  \* DelegationManager.delegation_history
    outcome,             \* how the current orchestrate call ended
    hist_at_start,       \* Len(delegation_history) when the current run began
    counts,              \* external calls and task executions of the current run
    started,             \* task ids handed to coordinate_agent_execution, in order
    made,                \* decisions evaluate_delegation_need made in the current run
    task_error,          \* <<>> or <<exception raised while a task executed>>
    replies,             \* the analysis reply of the run and the delegation reply just read
    selections,          \* what select_agent_for_task returned, call by call, in the run
    session,             \* an interactive session: run / run_conversation_loop of main.py
    call                 \* one call of a function on its own: its arguments, then its result

vars == <<pc, runs, query, decomposition, execution_plan, idx, results, frame,
          calls, delegation, delegation_history, outcome, hist_at_start,
          counts, started, made, task_error, replies, selections, session, call>>

----------------------------------------------------------------------------
(* Bounds of the model *)

MaxRuns == 2

\* longest candidate list and longest list of required capabilities of one call
MaxCandidates == 3
MaxRequired == 3

\* sessions run on one session id, and turns added over all of them
MaxSessions == 2
MaxTurns == 11

\* most problems in one batch
MaxProblems == 4

----------------------------------------------------------------------------
(* Static data: agents.py, registry.py *)

AGENT_REGISTRY ==
    <<"research_specialist", "data_analyst", "financial_advisor",
      "technical_expert", "creative_writer", "legal_advisor">>

RegisteredNames == {AGENT_REGISTRY[i] : i \in 1..Len(AGENT_REGISTRY)}

TaskType == {"research", "analysis", "creative", "technical", "financial",
             "legal", "general"}

\* DelegationManager.__init__(max_depth=5)
max_depth == 5

\* proficiency in hundredths
Capabilities(name) ==
    CASE name = "research_specialist" ->
           [web_research |-> 95, fact_checking |-> 90,
            source_evaluation |-> 85, trend_analysis |-> 80]
      [] name = "data_analyst" ->
           [statistical_analysis |-> 90, data_visualization |-> 85,
            predictive_modeling |-> 80, database_operations |-> 95]
      [] name = "financial_advisor" ->
           [investment_analysis |-> 90, risk_assessment |-> 95,
            tax_planning |-> 80, market_analysis |-> 85]
      [] name = "technical_expert" ->
           [system_design |-> 90, code_review |-> 85, debugging |-> 90,
            performance_optimization |-> 80]
      [] name = "creative_writer" ->
           [content_creation |-> 95, storytelling |-> 90, editing |-> 85,
            audience_analysis |-> 80]
      [] name = "legal_advisor" ->
           [contract_review |-> 90, compliance_check |-> 95,
            risk_mitigation |-> 85, legal_research |-> 90]

\* A score is the rational num / (100 * den).
RECURSIVE total_score(_, _)
total_score(caps, required) ==
    IF required = <<>> THEN 0
    ELSE (IF Head(required) \in DOMAIN caps THEN caps[Head(required)] ELSE 0)
         + total_score(caps, Tail(required))

\* mutant: the sum is not divided by the length of the list
get_capability_score_Mut(name, required_capabilities) ==
    IF required_capabilities = <<>>
    THEN [num |-> 50, den |-> 1]
    ELSE [num |-> total_score(Capabilities(name), required_capabilities),
          den |-> 1]

\* mutant: no default for an empty list, the empty sum is returned
get_capability_score_MutEmpty(name, required_capabilities) ==
    IF required_capabilities = <<>>
    THEN [num |-> 0, den |-> 1]
    ELSE [num |-> total_score(Capabilities(name), required_capabilities),
          den |-> Len(required_capabilities)]

get_capability_score(name, required_capabilities) ==
    IF required_capabilities = <<>>
    THEN [num |-> 50, den |-> 1]
    ELSE [num |-> total_score(Capabilities(name), required_capabilities),
          den |-> Len(required_capabilities)]

ScoreLess(a, b) == a.num * b.den < b.num * a.den

----------------------------------------------------------------------------
(* json.loads: a model reply is either text that does not parse or a JSON  *)
(* object, given as a function from the keys it has to their values.       *)

Garbage == [kind |-> "text", text |-> "not valid json"]

Json(obj) == [kind |-> "json", obj |-> obj]

json_loads(reply) ==
    IF reply.kind = "json"
    THEN [ok |-> TRUE, value |-> reply.obj]
    ELSE [ok |-> FALSE, error |-> "JSONDecodeError"]

Has(obj, key) == key \in DOMAIN obj

\* dict.get(key, default)
Get(obj, key, default) == IF Has(obj, key) THEN obj[key] ELSE default

----------------------------------------------------------------------------
(* Replies the language model may give, and the queries *)

Queries == {"compare funds", "review my portfolio"}

SubtaskJson(id, type, deps, caps) ==
    [id |-> id, description |-> "work of " \o id, type |-> type,
     complexity |-> 3, dependencies |-> deps,
     required_tools |-> <<"search_web">>, required_capabilities |-> caps]

St1 == SubtaskJson("task_1", "research", <<>>, <<"web_research", "fact_checking">>)
St2 == SubtaskJson("task_2", "analysis", <<"task_1">>, <<>>)
\* a second subtask that repeats the id of St1
St1Again == SubtaskJson("task_1", "analysis", <<>>, <<"statistical_analysis">>)

AnalysisReplies ==
    { Garbage,
      Json([subtasks |-> <<St1>>, execution_order |-> <<"task_1">>,
            parallel_groups |-> <<<<"task_1">>>>]),
      Json([subtasks |-> <<St1, St2>>, execution_order |-> <<"task_1", "task_2">>,
            parallel_groups |-> <<<<"task_2">>, <<>>, <<"task_1">>>>]),
      Json([subtasks |-> <<St2>>, execution_order |-> <<"task_2">>]),
      Json([subtasks |-> <<>>, execution_order |-> <<>>,
            parallel_groups |-> <<>>]),
      Json([subtasks |-> <<St1>>, execution_order |-> <<"task_1">>,
            parallel_groups |-> <<<<"task_1">>, <<"task_1">>>>]),
      Json([subtasks |-> <<St1, St2>>, execution_order |-> <<"task_1", "task_2">>,
            parallel_groups |-> <<<<"task_1", "task_2">>, <<"task_9">>>>]),
      Json([subtasks |-> <<St1>>]),
      Json([subtasks |-> <<SubtaskJson("task_1", "billing", <<>>, <<>>)>>,
            execution_order |-> <<"task_1">>]),
      Json([subtasks |-> <<[id |-> "task_1", description |-> "work", type |-> "general"]>>,
            execution_order |-> <<"task_1">>]),
      Json([execution_order |-> <<"task_1">>]),
      Json([subtasks |-> <<[description |-> "work", type |-> "general", complexity |-> 3]>>,
            execution_order |-> <<"task_1">>]),
      Json([subtasks |-> <<St1, [id |-> "task_2", type |-> "general", complexity |-> 3]>>,
            execution_order |-> <<"task_1", "task_2">>]),
      Json([subtasks |-> <<[id |-> "task_1", description |-> "work", complexity |-> 3]>>,
            execution_order |-> <<"task_1">>]),
      Json([subtasks |-> <<St1, St1Again>>, execution_order |-> <<"task_1">>,
            parallel_groups |-> <<<<"task_1">>>>]) }

SelectionReplies ==
    { Garbage,
      Json([agent |-> "data_analyst", confidence |-> [num |-> 90, den |-> 1]]),
      Json([agent |-> "nonexistent_agent", confidence |-> [num |-> 70, den |-> 1]]),
      Json([agent |-> "data_analyst"]) }

DelegationReply(should, to, reason, conf) ==
    Json([should_delegate |-> should, to_agent |-> to, reason |-> reason,
          confidence |-> [num |-> conf, den |-> 1]])

\* to_agent null is the empty string here: both are falsy in Python
DelegationReplies ==
    { Garbage,
      DelegationReply(FALSE, "", "agent is suitable", 80),
      DelegationReply(TRUE, "", "someone else should", 40),
      DelegationReply(TRUE, "research_specialist", "needs research", 90),
      DelegationReply(TRUE, "data_analyst", "needs data", 70),
      DelegationReply(TRUE, "nonexistent_agent", "needs a specialist", 60),
      Json([reason |-> "no decision"]) }

\* crew.kickoff(): the text it returns, or the exception it raises
CrewOutcomes == {[ok |-> TRUE, value |-> "crew output"],
                 [ok |-> FALSE, error |-> "CrewError"]}

SynthesisReplies == {"final answer"}

----------------------------------------------------------------------------
(* TaskAnalyzer.decompose_user_query *)

Ok(v) == [ok |-> TRUE, value |-> v]
Err(e) == [ok |-> FALSE, error |-> e]

\* mutant: the fallback subtask does not carry the query
FallbackAnalysis_Mut(q) ==
    [subtasks |-> <<[id |-> "task_1", description |-> "general task", type |-> "general",
                     complexity |-> 3, dependencies |-> <<>>,
                     required_tools |-> <<"search_web">>,
                     required_capabilities |-> <<"web_research">>]>>,
     execution_order |-> <<"task_1">>,
     parallel_groups |-> <<<<"task_1">>>>]

FallbackAnalysis(q) ==
    [subtasks |-> <<[id |-> "task_1", description |-> q, type |-> "general",
                     complexity |-> 3, dependencies |-> <<>>,
                     required_tools |-> <<"search_web">>,
                     required_capabilities |-> <<"web_research">>]>>,
     execution_order |-> <<"task_1">>,
     parallel_groups |-> <<<<"task_1">>>>]

\* mutant: a missing complexity gets a default instead of raising
SubTask_Mut(st) ==
    IF ~Has(st, "id") \/ ~Has(st, "description") \/ ~Has(st, "type")
    THEN Err("KeyError")
    ELSE IF st["type"] \notin TaskType THEN Err("ValueError")
    ELSE Ok([id |-> st["id"], description |-> st["description"],
             type |-> st["type"], complexity |-> Get(st, "complexity", 3),
             dependencies |-> Get(st, "dependencies", <<>>),
             required_tools |-> Get(st, "required_tools", <<>>),
             required_capabilities |-> Get(st, "required_capabilities", <<>>)])

\* SubTask(id=st["id"], ..., type=TaskType(st["type"]), ...)
SubTask(st) ==
    IF ~Has(st, "id") \/ ~Has(st, "description") \/ ~Has(st, "type")
    THEN Err("KeyError")
    ELSE IF st["type"] \notin TaskType THEN Err("ValueError")
    ELSE IF ~Has(st, "complexity") THEN Err("KeyError")
    ELSE Ok([id |-> st["id"], description |-> st["description"],
             type |-> st["type"], complexity |-> st["complexity"],
             dependencies |-> Get(st, "dependencies", <<>>),
             required_tools |-> Get(st, "required_tools", <<>>),
             required_capabilities |-> Get(st, "required_capabilities", <<>>)])

\* the loop over analysis["subtasks"]: the subtasks, or the first error
RECURSIVE ConvertSubtasks(_)
ConvertSubtasks(sts) ==
    IF sts = <<>> THEN Ok(<<>>)
    ELSE LET h == SubTask(Head(sts)) IN
         IF ~h.ok THEN h
         ELSE LET t == ConvertSubtasks(Tail(sts)) IN
              IF ~t.ok THEN t ELSE Ok(<<h.value>> \o t.value)

DefaultGroups(subtasks) == [i \in 1..Len(subtasks) |-> <<subtasks[i].id>>]

decompose_user_query(q, reply) ==
    LET parsed == json_loads(reply)
        analysis == IF parsed.ok THEN parsed.value ELSE FallbackAnalysis(q)
    IN  IF ~Has(analysis, "subtasks") THEN Err("KeyError")
        ELSE LET sts == ConvertSubtasks(analysis["subtasks"]) IN
             IF ~sts.ok THEN sts
             ELSE IF ~Has(analysis, "execution_order") THEN Err("KeyError")
             ELSE Ok([original_query |-> q,
                      subtasks |-> sts.value,
                      execution_order |-> analysis["execution_order"],
                      parallel_groups |->
                          Get(analysis, "parallel_groups", DefaultGroups(sts.value))])

----------------------------------------------------------------------------
(* IntelligentRouter.select_agent_for_task *)

\* mutant: among agents of equal score the last one wins
RECURSIVE MaxByScore_Mut(_, _, _)
MaxByScore_Mut(names, best, required) ==
    IF names = <<>> THEN best
    ELSE MaxByScore_Mut(Tail(names),
                        IF ScoreLess(get_capability_score(Head(names), required),
                                     get_capability_score(best, required))
                        THEN best ELSE Head(names),
                        required)

\* max(available_agents, key=...): the first agent of greatest score
RECURSIVE MaxByScore(_, _, _)
MaxByScore(names, best, required) ==
    IF names = <<>> THEN best
    ELSE MaxByScore(Tail(names),
                    IF ScoreLess(get_capability_score(best, required),
                                 get_capability_score(Head(names), required))
                    THEN Head(names) ELSE best,
                    required)

select_agent_for_task(task, available_agents, reply) ==
    LET parsed == json_loads(reply)
        answered == parsed.ok /\ Has(parsed.value, "agent")
                              /\ Has(parsed.value, "confidence")
    IN
    IF \E i \in 1..Len(available_agents) : available_agents[i] \notin RegisteredNames
    THEN Err("KeyError")
    ELSE
    IF answered
    THEN IF parsed.value["agent"] \in RegisteredNames
         THEN Ok([agent |-> parsed.value["agent"],
                  confidence |-> parsed.value["confidence"]])
         ELSE Err("KeyError")
    ELSE IF available_agents = <<>> THEN Err("ValueError")
    ELSE LET best_agent == MaxByScore(Tail(available_agents), Head(available_agents),
                                      task.required_capabilities)
         IN  Ok([agent |-> best_agent,
                 confidence |-> get_capability_score(best_agent,
                                                     task.required_capabilities)])

----------------------------------------------------------------------------
(* DelegationManager.evaluate_delegation_need *)

\* mutant: the depth guard is off by one
DepthExhausted_Mut(depth) == depth > max_depth

DepthExhausted(depth) == depth >= max_depth

\* mutant: a reply that does not parse is read as a hand-off
NoDelegationData_Mut ==
    [should_delegate |-> TRUE, to_agent |-> "data_analyst",
     reason |-> "JSON parsing failed", confidence |-> [num |-> 50, den |-> 1]]

NoDelegationData ==
    [should_delegate |-> FALSE, to_agent |-> "", reason |-> "JSON parsing failed",
     confidence |-> [num |-> 50, den |-> 1]]

\* the decision made from a reply: Ok(<<>>) for None, Ok(<<decision>>), or the error
DecisionFrom(agent_name, task, reply) ==
    LET parsed == json_loads(reply)
        decision_data == IF parsed.ok THEN parsed.value ELSE NoDelegationData
    IN  IF ~Has(decision_data, "should_delegate") THEN Err("KeyError")
        ELSE IF ~decision_data["should_delegate"] THEN Ok(<<>>)
        ELSE IF ~Has(decision_data, "to_agent") THEN Err("KeyError")
        ELSE IF decision_data["to_agent"] = "" THEN Ok(<<>>)
        ELSE IF ~Has(decision_data, "reason") \/ ~Has(decision_data, "confidence")
             THEN Err("KeyError")
        ELSE Ok(<<[from_agent |-> agent_name,
                   to_agent |-> decision_data["to_agent"],
                   task |-> task,
                   reason |-> decision_data["reason"],
                   confidence |-> decision_data["confidence"]]>>)

\* mutant: the decision is put in front of the history
AppendDecision_Mut(history, decision) == <<decision>> \o history

\* self.delegation_history.append(decision)
AppendDecision(history, decision) == Append(history, decision)

----------------------------------------------------------------------------
(* AgentExecutor.coordinate_agent_execution *)

\* mutant: the registry check is left out
Honoured_Mut(d) == d # <<>>

\* `delegation and delegation.to_agent in AGENT_REGISTRY`
Honoured(d) == d # <<>> /\ d[1].to_agent \in RegisteredNames

\* mutant: the recursive call passes its own depth on
NextDepth_Mut(depth) == depth

\* depth of the recursive call
NextDepth(depth) == depth + 1

\* the if/elif ladder over agent names; anything else raises ValueError
DispatchNames ==
    {"research_specialist", "data_analyst", "financial_advisor",
     "technical_expert", "creative_writer", "legal_advisor"}

\* mutant: the depth of the call is not reported
ResultRecord_Mut(agent_name, task, text, depth) ==
    [agent |-> agent_name, task_id |-> task.id,
     task_description |-> task.description, result |-> text,
     tools_used |-> task.required_tools, delegation_depth |-> 0]

ResultRecord(agent_name, task, text, depth) ==
    [agent |-> agent_name, task_id |-> task.id,
     task_description |-> task.description, result |-> text,
     tools_used |-> task.required_tools, delegation_depth |-> depth]

----------------------------------------------------------------------------
(* PrincipalRouterAgent._execute_task_plan *)

\* the task ids in the order the nested loops visit them
RECURSIVE ListedTasks(_)
ListedTasks(groups) ==
    IF groups = <<>> THEN <<>> ELSE Head(groups) \o ListedTasks(Tail(groups))

\* results[task_id] = result
Store(dict, key, value) ==
    [k \in DOMAIN dict \cup {key} |-> IF k = key THEN value ELSE dict[k]]

EmptyDict == [k \in {} |-> 0]

\* mutant: the loop catches the exception and goes on with the next task
OnTaskError_Mut(error, i, listed) ==
    [pc |-> IF i < Len(listed) THEN "executing" ELSE "synthesis", idx |-> i + 1,
     outcome |-> [kind |-> "running"]]

\* an exception raised while a task executes: nothing catches it on the way
\* out of _execute_task_plan and orchestrate_multi_agent_workflow
OnTaskError(error, i, listed) ==
    [pc |-> "raised", idx |-> i,
     outcome |-> [kind |-> "raised", exception |-> error]]

----------------------------------------------------------------------------
(* State machine *)

NoOutcome == [kind |-> "running"]
Raised(error) == [kind |-> "raised", exception |-> error]
NoFrame == [agent_name |-> "", depth |-> 0]
NoPlan == [parallel_groups |-> <<>>, task_assignments |-> EmptyDict]
ZeroCounts == [analysis |-> 0, selection |-> 0, delegation |-> 0, crew |-> 0,
               synthesis |-> 0, finished |-> 0, chain_from |-> 0]

Listed == ListedTasks(execution_plan.parallel_groups)
Subtasks == IF decomposition = <<>> THEN <<>> ELSE decomposition[1].subtasks
\* the task of the execution in progress
CurrentTask == execution_plan.task_assignments[Listed[idx]].task

\* mutant: the loops stop one task early
AfterTask_Mut(i, listed) == IF i + 1 < Len(listed) THEN "executing" ELSE "synthesis"

\* after results[task_id] = result: the next listed task, or the loops are done
AfterTask(i, listed) == IF i < Len(listed) THEN "executing" ELSE "synthesis"

\* where _execute_task_plan goes after create_execution_plan returned
EnterTaskPlan(groups) ==
    IF ListedTasks(groups) = <<>> THEN "synthesis" ELSE "executing"

NoReplies == [analysis |-> <<>>, delegation |-> <<>>]
OrchestrationVars ==
    <<pc, runs, query, decomposition, execution_plan, idx, results, frame,
      calls, delegation, delegation_history, outcome, hist_at_start,
      counts, started, made, task_error, replies, selections>>

\* AdvisorySessionManager.__init__: the context of a new manager
NewContext == [turns |-> <<>>, user_preferences |-> EmptyDict]

\* no run yet and no session file on disk
NoSession ==
    [pc |-> "none", context |-> NewContext, file |-> <<>>, pending |-> "",
     saves |-> 0, ended_by |-> "", clock |-> 0, sessions |-> 0, completed |-> 0,
     before |-> <<>>, log |-> <<>>]
NoCall == [fn |-> "none"]

\* PrincipalRouterAgent.__init__
Init ==
    /\ replies = NoReplies
    /\ selections = <<>>
    /\ session = NoSession
    /\ call = NoCall
    /\ pc = "idle"
    /\ runs = 0
    /\ query = ""
    /\ decomposition = <<>>
    /\ execution_plan = NoPlan
    /\ idx = 1
    /\ results = EmptyDict
    /\ frame = NoFrame
    /\ calls = 0
    /\ delegation = <<>>
    /\ delegation_history = <<>>
    /\ outcome = NoOutcome
    /\ hist_at_start = 0
    /\ counts = ZeroCounts
    /\ started = <<>>
    /\ made = <<>>
    /\ task_error = <<>>

\* orchestrate_multi_agent_workflow(query) is called on the orchestrator
Orchestrate(q) ==
    /\ pc \in {"idle", "returned", "raised"}
    /\ runs < MaxRuns
    /\ pc' = "analysis"
    /\ runs' = runs + 1
    /\ query' = q
    /\ decomposition' = <<>>
    /\ execution_plan' = NoPlan
    /\ idx' = 1
    /\ results' = EmptyDict
    /\ frame' = NoFrame
    /\ calls' = 0
    /\ delegation' = <<>>
    /\ outcome' = NoOutcome
    /\ hist_at_start' = Len(delegation_history)
    /\ counts' = ZeroCounts
    /\ started' = <<>>
    /\ made' = <<>>
    /\ task_error' = <<>>
    /\ replies' = NoReplies
    /\ selections' = <<>>
    /\ UNCHANGED <<delegation_history, session, call>>

\* step 1: the analysis call returns; create_execution_plan begins
Analyze(reply) ==
    /\ pc = "analysis"
    /\ LET r == decompose_user_query(query, reply) IN
       /\ counts' = [counts EXCEPT !.analysis = @ + 1]
       /\ IF r.ok
          THEN /\ decomposition' = <<r.value>>
               /\ execution_plan' = [parallel_groups |-> r.value.parallel_groups,
                                     task_assignments |-> EmptyDict]
               /\ pc' = IF r.value.subtasks = <<>>
                        THEN EnterTaskPlan(r.value.parallel_groups)
                        ELSE "planning"
               /\ outcome' = outcome
          ELSE /\ pc' = "raised"
               /\ outcome' = Raised(r.error)
               /\ UNCHANGED <<decomposition, execution_plan>>
    /\ replies' = [replies EXCEPT !.analysis = <<reply>>]
    /\ UNCHANGED <<runs, query, idx, results, frame, calls, delegation,
                   delegation_history, hist_at_start, started, made, task_error,
                   selections, session, call>>

\* step 2, one iteration of create_execution_plan: the selection call for
\* subtask idx returns
Select(reply) ==
    /\ pc = "planning"
    /\ LET task == Subtasks[idx]
           r == select_agent_for_task(task, AGENT_REGISTRY, reply)
       IN
       /\ counts' = [counts EXCEPT !.selection = @ + 1]
       /\ IF r.ok
          THEN /\ execution_plan' =
                     [execution_plan EXCEPT !.task_assignments =
                         Store(@, task.id, [agent |-> r.value.agent,
                                            confidence |-> r.value.confidence,
                                            task |-> task])]
               /\ selections' = Append(selections,
                                        [task_id |-> task.id, agent |-> r.value.agent,
                                         confidence |-> r.value.confidence])
               /\ IF idx < Len(Subtasks)
                  THEN pc' = "planning" /\ idx' = idx + 1
                  ELSE pc' = EnterTaskPlan(execution_plan.parallel_groups) /\ idx' = 1
               /\ outcome' = outcome
          ELSE /\ pc' = "raised"
               /\ outcome' = Raised(r.error)
               /\ UNCHANGED <<execution_plan, idx, selections>>
    /\ UNCHANGED <<runs, query, decomposition, results, frame, calls, delegation,
                   delegation_history, hist_at_start, started, made, task_error,
                   replies, session, call>>

\* step 3, loop head of _execute_task_plan: look the assignment up and call
\* coordinate_agent_execution(agent_name, task) at depth 0
BeginTask ==
    /\ pc = "executing"
    /\ LET task_id == Listed[idx] IN
       IF task_id \in DOMAIN execution_plan.task_assignments
       THEN /\ pc' = "delegation"
            /\ frame' = [agent_name |-> execution_plan.task_assignments[task_id].agent,
                         depth |-> 0]
            /\ calls' = 1
            /\ started' = Append(started, task_id)
            /\ counts' = [counts EXCEPT !.chain_from = Len(made)]
            /\ outcome' = outcome
       ELSE /\ pc' = "raised"
            /\ outcome' = Raised("KeyError")
            /\ UNCHANGED <<frame, calls, started, counts>>
    /\ delegation' = <<>>
    /\ UNCHANGED <<runs, query, decomposition, execution_plan, idx, results,
                   delegation_history, hist_at_start, made, task_error,
                   replies, selections, session, call>>

\* inside coordinate_agent_execution: evaluate_delegation_need returns, then
\* either the recursive call for the delegate is made or the agent is to run
EvaluateDelegation ==
    /\ pc = "delegation"
    /\ IF DepthExhausted(frame.depth)
       THEN /\ delegation' = <<>>
            /\ pc' = "agent_run"
            /\ replies' = [replies EXCEPT !.delegation = <<>>]
            /\ UNCHANGED <<delegation_history, counts, frame, calls, idx, outcome,
                           made, task_error>>
       ELSE \E reply \in DelegationReplies :
            LET r == DecisionFrom(frame.agent_name, CurrentTask, reply) IN
            /\ counts' = [counts EXCEPT !.delegation = @ + 1]
            /\ replies' = [replies EXCEPT !.delegation = <<reply>>]
            /\ IF ~r.ok
               THEN LET e == OnTaskError(r.error, idx, Listed) IN
                    /\ pc' = e.pc /\ idx' = e.idx /\ outcome' = e.outcome
                    /\ task_error' = <<r.error>>
                    /\ UNCHANGED <<delegation, delegation_history, frame, calls, made>>
               ELSE /\ delegation' = r.value
                    /\ delegation_history' =
                          IF r.value # <<>>
                          THEN AppendDecision(delegation_history, r.value[1])
                          ELSE delegation_history
                    /\ made' = made \o r.value
                    /\ IF Honoured(r.value)
                       THEN /\ frame' = [agent_name |-> r.value[1].to_agent,
                                         depth |-> NextDepth(frame.depth)]
                            /\ calls' = calls + 1
                            /\ IF r.value[1].to_agent \in RegisteredNames
                               THEN pc' = "delegation"
                                    /\ UNCHANGED <<idx, outcome, task_error>>
                               ELSE LET e == OnTaskError("KeyError", idx, Listed) IN
                                    /\ pc' = e.pc /\ idx' = e.idx
                                    /\ outcome' = e.outcome
                                    /\ task_error' = <<"KeyError">>
                       ELSE /\ pc' = "agent_run"
                            /\ UNCHANGED <<frame, calls, idx, outcome, task_error>>
    /\ UNCHANGED <<runs, query, decomposition, execution_plan, results,
                   hist_at_start, started, selections, session, call>>

\* the agent's execute_<name> method returns or raises; on return the result
\* is stored and the loops of _execute_task_plan move on
AgentRun(out) ==
    /\ pc = "agent_run"
    /\ IF frame.agent_name \in DispatchNames /\ out.ok
       THEN /\ results' = Store(results, CurrentTask.id,
                                ResultRecord(frame.agent_name, CurrentTask,
                                             out.value, frame.depth))
            /\ counts' = [counts EXCEPT !.crew = @ + 1, !.finished = @ + 1]
            /\ idx' = idx + 1
            /\ pc' = AfterTask(idx, Listed)
            /\ UNCHANGED <<outcome, task_error>>
       ELSE LET error == IF frame.agent_name \in DispatchNames
                         THEN out.error ELSE "ValueError"
                e == OnTaskError(error, idx, Listed)
            IN
            /\ pc' = e.pc /\ idx' = e.idx /\ outcome' = e.outcome
            /\ task_error' = <<error>>
            /\ counts' = [counts EXCEPT !.crew =
                             IF frame.agent_name \in DispatchNames THEN @ + 1 ELSE @]
            /\ results' = results
    /\ replies' = [replies EXCEPT !.delegation = <<>>]
    /\ UNCHANGED <<runs, query, decomposition, execution_plan, frame, calls,
                   delegation, delegation_history, hist_at_start, started, made,
                   selections, session, call>>

\* step 4: the synthesis call returns and orchestrate returns its result
Synthesize(reply) ==
    /\ pc = "synthesis"
    /\ counts' = [counts EXCEPT !.synthesis = @ + 1]
    /\ pc' = "returned"
    /\ outcome' = [kind |-> "returned",
                   value |-> [response |-> reply,
                              decomposition |-> decomposition[1],
                              execution_plan |-> execution_plan,
                              task_results |-> results,
                              delegation_history |-> delegation_history]]
    /\ UNCHANGED <<runs, query, decomposition, execution_plan, idx, results, frame,
                   calls, delegation, delegation_history, hist_at_start, started,
                   made, task_error, replies, selections, session, call>>

Step ==
    \/ \E reply \in AnalysisReplies : Analyze(reply)
    \/ \E reply \in SelectionReplies : Select(reply)
    \/ BeginTask
    \/ EvaluateDelegation
    \/ \E out \in CrewOutcomes : AgentRun(out)
    \/ \E reply \in SynthesisReplies : Synthesize(reply)

\* one orchestrator object per query, as process_single_query makes them
Next ==
    \/ \E q \in Queries : runs = 0 /\ Orchestrate(q)
    \/ Step

Spec == Init /\ [][Next]_vars

\* the same orchestrator object serves several queries (analysis replies
\* limited to those that do not parse, to keep the second run small)
NextReuse ==
    \/ \E q \in Queries : Orchestrate(q)
    \/ Analyze(Garbage)
    \/ \E reply \in SelectionReplies : Select(reply)
    \/ BeginTask
    \/ EvaluateDelegation
    \/ \E out \in CrewOutcomes : AgentRun(out)
    \/ \E reply \in SynthesisReplies : Synthesize(reply)

SpecReuse == Init /\ [][NextReuse]_vars

----------------------------------------------------------------------------
(* main.py: an interactive session, run() and the session loop.  The        *)
(* orchestrator is one call that returns or raises.  session.file is the    *)
(* content of advisory_session_<id>.pkl, <<>> while there is no file.       *)

\* AdvisorySessionManager.__init__
max_context_turns == 10

\* what input() gives: a line, or it raises
Lines == {"exit", "QUIT", " bye ", "", "   ", "plan my retirement ", "Compare funds"}

\* str.strip
strip(line) ==
    CASE line = " bye " -> "bye"
      [] line = "   " -> ""
      [] line = "plan my retirement " -> "plan my retirement"
      [] OTHER -> line

\* str.lower
lower(line) ==
    CASE line = "QUIT" -> "quit"
      [] line = "Compare funds" -> "compare funds"
      [] OTHER -> line

\* the preferences learnt from an inquiry in lower case
Learnt(query_lower) ==
    CASE query_lower = "plan my retirement" -> [interest |-> "retirement_planning"]
      [] OTHER -> EmptyDict

\* dict.update
update(dict, other) ==
    [k \in DOMAIN dict \cup DOMAIN other |->
        IF k \in DOMAIN other THEN other[k] ELSE dict[k]]

\* the last n elements of a list: list[-n:]
Last(list, n) ==
    IF Len(list) <= n THEN list ELSE SubSeq(list, Len(list) - n + 1, Len(list))

\* mutant: the oldest turns are kept and the new one is dropped
add_turn_Mut(context, turn) ==
    LET turns == Append(context.turns, turn) IN
    [context EXCEPT !.turns = IF Len(turns) > max_context_turns
                              THEN SubSeq(turns, 1, max_context_turns) ELSE turns]

add_turn(context, turn) ==
    LET turns == Append(context.turns, turn) IN
    [context EXCEPT !.turns = IF Len(turns) > max_context_turns
                              THEN Last(turns, max_context_turns) ELSE turns]

update_preferences(context, preferences) ==
    [context EXCEPT !.user_preferences = update(@, preferences)]

save_session(s) == [s EXCEPT !.file = <<s.context>>, !.saves = @ + 1]

load_session(s) ==
    IF s.file = <<>> THEN s ELSE [s EXCEPT !.context = s.file[1]]

\* mutant: a keyboard interrupt ends the session without saving
EndSession_Mut(s, how) ==
    [(IF how = "interrupt" THEN s ELSE save_session(s)) EXCEPT
        !.pc = IF how = "exception" THEN "reraised" ELSE "returned",
        !.ended_by = how, !.pending = "", !.before = <<>>]

\* the three ways out of run: the exit command in the loop, and the two
\* handlers of run; each saves, the last one raises again
EndSession(s, how) ==
    [save_session(s) EXCEPT
        !.pc = IF how = "exception" THEN "reraised" ELSE "returned",
        !.ended_by = how, !.pending = "", !.before = <<>>]

\* mutant: the session is saved after every turn
TurnDone_Mut(s) ==
    save_session([s EXCEPT !.context = add_turn(@, [timestamp |-> s.clock + 1,
                                                    user_input |-> s.pending]),
                           !.log = Append(@, [timestamp |-> s.clock + 1,
                                              user_input |-> s.pending]),
                           !.clock = @ + 1, !.completed = @ + 1,
                           !.pc = "learning"])

\* process_client_inquiry after the orchestrator has returned: add_turn
TurnDone(s) ==
    [s EXCEPT !.context = add_turn(@, [timestamp |-> s.clock + 1,
                                       user_input |-> s.pending]),
              !.log = Append(@, [timestamp |-> s.clock + 1, user_input |-> s.pending]),
              !.clock = @ + 1, !.completed = @ + 1,
              !.pc = "learning"]

InitSession ==
    /\ session = NoSession
    /\ call = NoCall
    /\ pc = "idle"
    /\ runs = 0
    /\ query = ""
    /\ decomposition = <<>>
    /\ execution_plan = NoPlan
    /\ idx = 1
    /\ results = EmptyDict
    /\ frame = NoFrame
    /\ calls = 0
    /\ delegation = <<>>
    /\ delegation_history = <<>>
    /\ outcome = NoOutcome
    /\ hist_at_start = 0
    /\ counts = ZeroCounts
    /\ started = <<>>
    /\ made = <<>>
    /\ task_error = <<>>
    /\ replies = NoReplies
    /\ selections = <<>>

\* mutant: a failed inquiry is recorded as a turn
InquiryFailed_Mut(s) ==
    [s EXCEPT !.context = add_turn(@, [timestamp |-> s.clock + 1,
                                       user_input |-> s.pending]),
              !.clock = @ + 1,
              !.pc = "handling"]

\* process_client_inquiry raises out of the orchestrator: into the except
\* branch of the loop
InquiryFailed(s) == [s EXCEPT !.pc = "handling"]

InLoop == session.pc \in {"loop", "processing", "learning", "handling"}

\* run(session_id): a new manager, load_session, and into the loop
Run ==
    /\ session.pc \in {"none", "returned", "reraised"}
    /\ session.sessions < MaxSessions
    /\ session' = [load_session([session EXCEPT !.context = NewContext]) EXCEPT
                      !.pc = "loop", !.saves = 0, !.ended_by = "", !.completed = 0,
                      !.sessions = @ + 1, !.before = <<>>]
    /\ UNCHANGED <<OrchestrationVars, call>>

\* input() returns a line: exit command, empty line or inquiry
ReadLine(line) ==
    /\ session.pc = "loop"
    /\ LET user_input == strip(line) IN
       IF lower(user_input) \in {"exit", "quit", "bye"}
       THEN session' = EndSession(session, "exit")
       ELSE IF user_input = ""
       THEN session' = session
       ELSE /\ session.clock < MaxTurns
            /\ session' = [session EXCEPT !.pc = "processing", !.pending = user_input,
                                          !.before = <<session.context>>]
    /\ UNCHANGED <<OrchestrationVars, call>>

\* input() raises EOFError: out of the loop, into the second handler of run
InputFails ==
    /\ session.pc = "loop"
    /\ session' = EndSession(session, "exception")
    /\ UNCHANGED <<OrchestrationVars, call>>

\* Ctrl-C anywhere in the loop: into the first handler of run
KeyboardInterrupt ==
    /\ InLoop
    /\ session' = EndSession(session, "interrupt")
    /\ UNCHANGED <<OrchestrationVars, call>>

\* the orchestrator returns and the turn is added, or it raises
Process(returns) ==
    /\ session.pc = "processing"
    /\ session' = IF returns THEN TurnDone(session) ELSE InquiryFailed(session)
    /\ UNCHANGED <<OrchestrationVars, call>>

\* the except branch of the loop: the error is printed, back to input()
HandleError ==
    /\ session.pc = "handling"
    /\ session' = [session EXCEPT !.pc = "loop", !.pending = "", !.before = <<>>]
    /\ UNCHANGED <<OrchestrationVars, call>>

\* the rest of process_client_inquiry: the preferences, and back to input()
Learn ==
    /\ session.pc = "learning"
    /\ session' = [session EXCEPT
                      !.context = update_preferences(@, Learnt(lower(session.pending))),
                      !.pc = "loop", !.pending = "", !.before = <<>>]
    /\ UNCHANGED <<OrchestrationVars, call>>

NextSession ==
    \/ Run
    \/ \E line \in Lines : ReadLine(line)
    \/ InputFails
    \/ KeyboardInterrupt
    \/ \E returns \in BOOLEAN : Process(returns)
    \/ HandleError
    \/ Learn

SpecSession == InitSession /\ [][NextSession]_vars

----------------------------------------------------------------------------
(* One call of select_agent_for_task or of get_capability_score on its own, *)
(* on arguments the orchestrator does not produce by itself: an explicit    *)
(* candidate list, a list of required capabilities with repeats and with    *)
(* names no agent has.                                                      *)

RECURSIVE SeqsUpTo(_, _)
SeqsUpTo(S, n) ==
    IF n = 0 THEN {<<>>}
    ELSE LET shorter == SeqsUpTo(S, n - 1)
         IN  shorter \cup {Append(q, x) : q \in shorter, x \in S}

CandidateNames ==
    {"research_specialist", "data_analyst", "financial_advisor", "nonexistent_agent"}

CapabilityNames == {"web_research", "statistical_analysis", "juggling"}

CandidateLists == SeqsUpTo(CandidateNames, MaxCandidates)

RequiredLists == SeqsUpTo(CapabilityNames, MaxRequired)

SelectCalls ==
    [fn : {"select"}, required : RequiredLists, available_agents : CandidateLists,
     reply : SelectionReplies, result : {<<>>}]

ScoreCalls ==
    [fn : {"score"}, agent : RegisteredNames, required : RequiredLists,
     result : {<<>>}]

InitCall ==
    /\ call \in SelectCalls \cup ScoreCalls
    /\ pc = "idle"
    /\ runs = 0
    /\ query = ""
    /\ decomposition = <<>>
    /\ execution_plan = NoPlan
    /\ idx = 1
    /\ results = EmptyDict
    /\ frame = NoFrame
    /\ calls = 0
    /\ delegation = <<>>
    /\ delegation_history = <<>>
    /\ outcome = NoOutcome
    /\ hist_at_start = 0
    /\ counts = ZeroCounts
    /\ started = <<>>
    /\ made = <<>>
    /\ task_error = <<>>
    /\ replies = NoReplies
    /\ selections = <<>>
    /\ session = NoSession

\* router.select_agent_for_task(task, available_agents)
CallSelect ==
    /\ call.fn = "select"
    /\ call.result = <<>>
    /\ call' = [call EXCEPT !.result =
                   <<select_agent_for_task([required_capabilities |-> call.required],
                                           call.available_agents, call.reply)>>]
    /\ UNCHANGED <<OrchestrationVars, session>>

\* agent.get_capability_score(required_capabilities)
CallScore ==
    /\ call.fn = "score"
    /\ call.result = <<>>
    /\ call' = [call EXCEPT !.result =
                   <<get_capability_score(call.agent, call.required)>>]
    /\ UNCHANGED <<OrchestrationVars, session>>

NextCall ==
    \/ CallSelect
    \/ CallScore

SpecCall == InitCall /\ [][NextCall]_vars

----------------------------------------------------------------------------
(* Properties *)

Returned == pc = "returned"
ReturnedHistory == outcome.value.delegation_history
InTask == pc \in {"delegation", "agent_run"}

IsPrefix(a, b) == Len(a) <= Len(b) /\ \A i \in 1..Len(a) : a[i] = b[i]

\* C1: a top-level coordinate_agent_execution call makes at most
\* max_depth + 1 nested calls, whatever the delegation replies are: the k-th
\* nested call runs at depth k - 1 <= max_depth, every step inside the call
\* either nests one call deeper or moves towards its end, and the agent's run
\* ends the call by a result or an exception.
C1_ExecuteBounded ==
    /\ [](calls <= max_depth + 1 /\ (InTask => frame.depth = calls - 1))
    /\ [][pc = "delegation" =>
             \/ pc' = "delegation" /\ calls' = calls + 1
             \/ pc' \in {"agent_run", "raised"} /\ calls' \in {calls, calls + 1}]_vars
    /\ [][pc = "agent_run" => pc' \in {"executing", "synthesis", "raised"}]_vars

\* a chain of max_depth delegations, between two agents, has reached its end
C1_Witness ==
    /\ pc = "agent_run"
    /\ calls = max_depth + 1
    /\ \E i \in 1..Len(made) : made[i].to_agent # made[1].to_agent

\* C2: evaluate_delegation_need entered at depth >= max_depth returns None,
\* makes no call to the model and leaves delegation_history as it is.
C2_NoDelegationAtMaxDepth ==
    [][pc = "delegation" /\ frame.depth >= max_depth =>
          /\ delegation' = <<>>
          /\ delegation_history' = delegation_history
          /\ counts'.delegation = counts.delegation
          /\ pc' = "agent_run"]_vars

C2_Witness ==
    pc = "agent_run" /\ frame.depth = max_depth /\ delegation = <<>>

\* C3: a TaskDecomposition returned by decompose_user_query has at least one
\* subtask.
C3_SubtasksNonEmpty ==
    decomposition # <<>> => decomposition[1].subtasks # <<>>

\* C4: when a task execution raises, orchestrate ends by raising that same
\* exception: no result is returned, synthesis is not called, and the failed
\* task is the last one that was started.
C4_TaskErrorAborts ==
    task_error # <<>> =>
        /\ pc = "raised"
        /\ outcome = Raised(task_error[1])
        /\ counts.synthesis = 0
        /\ Len(started) = counts.finished + 1

\* a task raised after another had completed and while one was still to run
C4_Witness ==
    /\ task_error # <<>>
    /\ counts.finished >= 1
    /\ Len(started) < Len(Listed)

\* C5: one analysis call, then one selection per subtask, then the listed
\* tasks one at a time in the order of parallel_groups, then one synthesis
\* call after the last listed task has returned.
C5_StepOrder ==
    /\ counts.analysis <= 1 /\ counts.synthesis <= 1
    /\ counts.selection > 0 => counts.analysis = 1
    /\ counts.selection <= Len(Subtasks)
    /\ started # <<>> => counts.selection = Len(Subtasks)
    /\ IsPrefix(started, Listed)
    /\ Len(started) - counts.finished = (IF InTask \/ task_error # <<>> THEN 1 ELSE 0)
    /\ counts.delegation + counts.crew > 0 => started # <<>>
    /\ counts.synthesis = 1 =>
          /\ counts.finished = Len(Listed)
          /\ ~InTask
          /\ counts.analysis = 1
    /\ Returned => counts.synthesis = 1

\* a run of two subtasks listed in another order than the subtasks has returned
C5_Witness ==
    /\ Returned
    /\ Len(started) = 2
    /\ started[1] # Subtasks[1].id

\* C6: a nested coordinate call is made only for a decision whose to_agent
\* is registered, and for that agent; a decision naming an unregistered
\* agent leaves the task with the current agent at the current depth.
C6_DelegateOnlyToRegistered ==
    /\ [][pc = "delegation" /\ calls' = calls + 1 =>
             /\ delegation' # <<>>
             /\ delegation'[1].to_agent \in RegisteredNames
             /\ frame'.agent_name = delegation'[1].to_agent
             /\ frame'.depth = frame.depth + 1]_vars
    /\ [][/\ pc = "delegation"
          /\ delegation' # <<>>
          /\ delegation'[1].to_agent \notin RegisteredNames
          /\ made' # made
          => pc' = "agent_run" /\ frame' = frame]_vars

\* a decision naming an unregistered agent was made after one hand-off
C6_Witness ==
    /\ pc = "agent_run"
    /\ delegation # <<>>
    /\ delegation[1].to_agent \notin RegisteredNames
    /\ frame.depth = 1

\* C7: every entry of delegation_history is a hand-off that took place: its
\* to_agent is a registered agent.
C7_HistoryHoldsHandoffsOnly ==
    \A i \in 1..Len(delegation_history) :
        delegation_history[i].to_agent \in RegisteredNames

\* C8: a run that returns has added at most max_depth entries per subtask of
\* its decomposition to delegation_history.
C8_HistoryBoundedBySubtasks ==
    Returned =>
        Len(ReturnedHistory) - hist_at_start <= max_depth * Len(Subtasks)

\* C9: delegation_history only grows at its end, and the history a run
\* returns ends with the decisions made during the run, in the order made.
C9_HistoryRoundTrip ==
    /\ [][IsPrefix(delegation_history, delegation_history')]_vars
    /\ [](Returned =>
            /\ Len(ReturnedHistory) >= Len(made)
            /\ SubSeq(ReturnedHistory, Len(ReturnedHistory) - Len(made) + 1,
                      Len(ReturnedHistory)) = made)

\* a run has returned three decisions that are not all the same
C9_Witness ==
    /\ Returned
    /\ Len(made) >= 3
    /\ made[1] # made[2]

\* C10: the history a run returns holds no decision of an earlier run.
C10_HistoryOfThisRunOnly ==
    Returned => Len(ReturnedHistory) <= Len(made)


----------------------------------------------------------------------------
(* Calls of one function *)

SelectDone == call.fn = "select" /\ call.result # <<>>

ScoreDone == call.fn = "score" /\ call.result # <<>>

\* the selection reply is read as an answer: it parses and has both keys
Answered(reply) ==
    reply.kind = "json" /\ "agent" \in DOMAIN reply.obj
                        /\ "confidence" \in DOMAIN reply.obj

AllRegistered(names) == \A i \in 1..Len(names) : names[i] \in RegisteredNames

\* C11: select called with an empty candidate list always raises an error,
\* whatever the model answers to the selection call; it never returns an agent.
C11_EmptyCandidatesRaise ==
    (SelectDone /\ call.available_agents = <<>>) => ~call.result[1].ok

\* C12: when the selection reply is not valid JSON or lacks 'agent' or
\* 'confidence', select with a non-empty list of candidates of the pool returns
\* the candidate of highest capability score, the first in candidate order among
\* candidates of equal score, with that candidate's score as the confidence.
C12_FallbackPicksFirstBest ==
    (/\ SelectDone
     /\ ~Answered(call.reply)
     /\ call.available_agents # <<>>
     /\ AllRegistered(call.available_agents))
    => LET cands == call.available_agents
           score(i) == get_capability_score(cands[i], call.required)
           r == call.result[1]
       IN  /\ r.ok
           /\ \E i \in 1..Len(cands) :
                 /\ r.value.agent = cands[i]
                 /\ r.value.confidence = score(i)
                 /\ \A j \in 1..Len(cands) : ~ScoreLess(score(i), score(j))
                 /\ \A j \in 1..(i - 1) : ScoreLess(score(j), score(i))

\* two candidates of equal, greatest score, the later one differing from the first
C12_Witness ==
    /\ SelectDone
    /\ call.reply = Garbage
    /\ Len(call.available_agents) = 3
    /\ call.available_agents[1] = "data_analyst"
    /\ call.available_agents[2] = "research_specialist"
    /\ call.available_agents[3] = "financial_advisor"
    /\ call.required = <<"juggling">>
    /\ call.result[1] = Ok([agent |-> "data_analyst", confidence |-> [num |-> 0, den |-> 1]])

\* the sum of the agent's proficiency over the first n entries of the list
RECURSIVE MatchedSum(_, _, _)
MatchedSum(name, required, n) ==
    IF n = 0 THEN 0
    ELSE MatchedSum(name, required, n - 1)
         + (IF required[n] \in DOMAIN Capabilities(name)
            THEN Capabilities(name)[required[n]] ELSE 0)

\* C20: for a non-empty list of required capabilities get_capability_score
\* returns the sum of the agent's proficiency over the entries the agent has,
\* divided by the length of the list; the result lies in [0,1] and is 0 when the
\* agent has none of the listed capabilities.
C20_ScoreIsMeanOverList ==
    (ScoreDone /\ call.required # <<>>)
    => LET r == call.result[1]
           n == Len(call.required)
       IN  /\ r.den = n
           /\ r.num = MatchedSum(call.agent, call.required, n)
           /\ 0 <= r.num /\ r.num <= 100 * r.den
           /\ (\A i \in 1..n : call.required[i] \notin DOMAIN Capabilities(call.agent))
              => r.num = 0

\* a list with a repeated capability the agent has and one it has not
C20_Witness ==
    /\ ScoreDone
    /\ call.agent = "research_specialist"
    /\ call.required = <<"web_research", "juggling", "web_research">>
    /\ call.result[1] = [num |-> 190, den |-> 3]


----------------------------------------------------------------------------
(* Replies that do not parse or lack keys, and the plan *)

AnalysisReply == replies.analysis[1]

\* C13: when the analysis reply is not valid JSON, analyze does not raise and
\* returns the fallback decomposition, which depends only on the query: exactly
\* one subtask with id task_1, the query as description and type general, with
\* execution_order [task_1] and parallel_groups [[task_1]].
C13_FallbackDecomposition ==
    (replies.analysis # <<>> /\ AnalysisReply.kind = "text")
    => /\ decomposition =
            << [original_query |-> query,
                subtasks |-> << [id |-> "task_1", description |-> query,
                                 type |-> "general", complexity |-> 3,
                                 dependencies |-> <<>>,
                                 required_tools |-> <<"search_web">>,
                                 required_capabilities |-> <<"web_research">>] >>,
                execution_order |-> <<"task_1">>,
                parallel_groups |-> << <<"task_1">> >>] >>
       /\ (counts.selection = 0 => pc = "planning")

C13_Witness ==
    /\ pc = "planning"
    /\ replies.analysis = <<Garbage>>
    /\ query = "review my portfolio"
    /\ Len(decomposition[1].subtasks) = 1
    /\ decomposition[1].subtasks[1].description = "review my portfolio"

RequiredSubtaskKeys == {"id", "description", "type", "complexity"}

\* the reply parses but analyze cannot build a TaskDecomposition from it
BadShape(reply) ==
    /\ reply.kind = "json"
    /\ IF "subtasks" \notin DOMAIN reply.obj THEN TRUE
       ELSE \/ "execution_order" \notin DOMAIN reply.obj
            \/ \E i \in 1..Len(reply.obj["subtasks"]) :
                 LET st == reply.obj["subtasks"][i] IN
                 IF RequiredSubtaskKeys \subseteq DOMAIN st
                 THEN st["type"] \notin TaskType
                 ELSE TRUE

\* C14: when the analysis reply is valid JSON but lacks 'subtasks' or
\* 'execution_order', or a subtask lacks 'id', 'description', 'type' or
\* 'complexity', or a subtask's type is outside the task types, analyze raises,
\* the exception leaves orchestrate, and the run makes no selection, task
\* execution or synthesis call.
C14_BadShapeRaises ==
    (replies.analysis # <<>> /\ BadShape(AnalysisReply))
    => /\ pc = "raised"
       /\ outcome.kind = "raised"
       /\ outcome.exception \in {"KeyError", "ValueError"}
       /\ decomposition = <<>>
       /\ counts.analysis = 1
       /\ counts.selection = 0 /\ selections = <<>>
       /\ started = <<>> /\ counts.delegation = 0 /\ counts.crew = 0
       /\ counts.synthesis = 0

\* a well-formed first subtask followed by one that lacks its description
C14_Witness ==
    /\ pc = "raised"
    /\ replies.analysis # <<>>
    /\ AnalysisReply.kind = "json"
    /\ "subtasks" \in DOMAIN AnalysisReply.obj
    /\ Len(AnalysisReply.obj["subtasks"]) = 2
    /\ "description" \notin DOMAIN AnalysisReply.obj["subtasks"][2]
    /\ outcome = Raised("KeyError")

\* C15: when the delegation reply is not valid JSON, maybe_delegate returns
\* none without raising and without appending to delegation_history, and the
\* task then runs with the current agent at the current depth.
C15_UnparsedDelegationReply ==
    [][ (/\ pc = "delegation"
         /\ counts'.delegation = counts.delegation + 1
         /\ replies'.delegation # <<>>
         /\ replies'.delegation[1].kind = "text")
        => (/\ delegation' = <<>>
            /\ delegation_history' = delegation_history
            /\ made' = made
            /\ task_error' = task_error /\ outcome' = outcome
            /\ pc' = "agent_run"
            /\ frame' = frame /\ calls' = calls /\ idx' = idx) ]_vars

\* after one hand-off, the reply read at depth 1 does not parse
C15_Witness ==
    /\ pc = "agent_run"
    /\ replies.delegation = <<Garbage>>
    /\ frame.depth = 1
    /\ frame.agent_name = "data_analyst"
    /\ delegation = <<>>
    /\ Len(delegation_history) = 1

SubtaskIds == {Subtasks[i].id : i \in 1..Len(Subtasks)}

\* C16: every task id listed in execution_order and in parallel_groups of a
\* TaskDecomposition returned by analyze is the id of one of its subtasks.
C16_ListedIdsAreSubtasks ==
    decomposition # <<>>
    => LET d == decomposition[1]
           listed == ListedTasks(d.parallel_groups)
       IN  /\ \A i \in 1..Len(d.execution_order) : d.execution_order[i] \in SubtaskIds
           /\ \A i \in 1..Len(listed) : listed[i] \in SubtaskIds

\* create_execution_plan has returned
PlanMade ==
    /\ decomposition # <<>>
    /\ pc \in {"executing", "delegation", "agent_run", "synthesis", "returned"}

Assignment(i) ==
    [agent |-> selections[i].agent, confidence |-> selections[i].confidence,
     task |-> Subtasks[i]]

OncePerSubtask ==
    /\ counts.selection = Len(Subtasks)
    /\ Len(selections) = Len(Subtasks)
    /\ \A i \in 1..Len(Subtasks) : selections[i].task_id = Subtasks[i].id
    /\ DOMAIN execution_plan.task_assignments = SubtaskIds

\* C17: create_execution_plan calls select exactly once per subtask, in subtask
\* order, and its plan maps every subtask id to the agent and the confidence
\* select returned for that subtask, and that subtask.
C17_PlanPerSubtask ==
    PlanMade
    => /\ OncePerSubtask
       /\ \A i \in 1..Len(Subtasks) :
             execution_plan.task_assignments[Subtasks[i].id] = Assignment(i)


----------------------------------------------------------------------------
(* The session file *)

LastTurn == session.context.turns[Len(session.context.turns)]

FileHolds(turn) ==
    /\ session.file # <<>>
    /\ \E i \in 1..Len(session.file[1].turns) : session.file[1].turns[i] = turn

\* C18: in an interactive session the ConversationContext is persisted to disk
\* between turns: after every completed turn and before the next inquiry is
\* read, the session file holds a snapshot that includes the turn just completed.
C18_SavedBetweenTurns ==
    (session.pc = "loop" /\ session.completed > 0) => FileHolds(LastTurn)

\* C18 as amended: the ConversationContext is persisted to disk when the session
\* ends, not between turns: the session file is written only by the step that
\* ends the session, and it then holds a snapshot of the context that includes
\* the last completed turn.
C18_SavedAtSessionEnd ==
    [][ (session'.file # session.file \/ session'.saves > session.saves)
        => (/\ InLoop
            /\ session'.pc \in {"returned", "reraised"}
            /\ session'.file = <<session.context>>
            /\ session'.context = session.context
            /\ (session.context.turns # <<>>
                => \E i \in 1..Len(session'.file[1].turns) :
                      session'.file[1].turns[i]
                         = session.context.turns[Len(session.context.turns)]) ) ]_vars

\* a session of the second run ended by the exit command, after the context
\* had dropped its oldest turn
C18_Witness ==
    /\ session.pc = "returned"
    /\ session.ended_by = "exit"
    /\ session.sessions = 2
    /\ session.completed > 0
    /\ Len(session.context.turns) = max_context_turns
    /\ session.context.turns[1].timestamp > 1
    /\ FileHolds(LastTurn)

\* C19: whenever a session started by run ends, by an exit command, a keyboard
\* interrupt or an exception escaping the session loop, save_session has been
\* called with the current context before run returns or raises again, so the
\* saved snapshot holds every turn retained in the context at that moment.
C19_SavedOnEveryEnd ==
    session.pc \in {"returned", "reraised"}
    => /\ session.ended_by \in {"exit", "interrupt", "exception"}
       /\ (session.pc = "reraised") = (session.ended_by = "exception")
       /\ session.saves >= 1
       /\ session.file # <<>>
       /\ session.file[1].turns = session.context.turns
       /\ session.file[1] = session.context

\* a keyboard interrupt after one completed turn that taught a preference
C19_Witness ==
    /\ session.pc = "returned"
    /\ session.ended_by = "interrupt"
    /\ session.completed = 1
    /\ Len(session.context.turns) >= 1
    /\ session.saves = 1
    /\ session.file = <<session.context>>
    /\ "interest" \in DOMAIN session.context.user_preferences


----------------------------------------------------------------------------
(* The default score *)

\* C21: for every agent, get_capability_score returns exactly 0.5 when the
\* list of required capabilities is empty, whatever capabilities the agent has.
C21_EmptyListScoresHalf ==
    (ScoreDone /\ call.required = <<>>)
    => (call.result[1].num = 50 /\ call.result[1].den = 1)

C21_Witness ==
    /\ ScoreDone
    /\ call.agent = "legal_advisor"
    /\ call.required = <<>>
    /\ call.result[1] = [num |-> 50, den |-> 1]


----------------------------------------------------------------------------
(* registry.py: the tool functions.  A tool call ends with a string or with *)
(* an exception that leaves the function.  JSON values carry their type.    *)

Str(text) == [kind |-> "string", text |-> text]
Escapes(exception) == [kind |-> "raised", exception |-> exception]

JDict(d) == [t |-> "dict", d |-> d]
JList(l) == [t |-> "list", l |-> l]
JStr(x) == [t |-> "str", s |-> x]
JNull == [t |-> "null"]

ToolQueries == {"", "fund fees", "risk of bonds", "x' OR 1=1"}

Hit1 == JDict([title |-> JStr("Fees"), snippet |-> JStr("About fees"),
               link |-> JStr("http://a")])
Hit2 == JDict([link |-> JStr("http://b")])

\* what requests.get gives: it raises, or a response with a status and a body
\* (body <<>>: not JSON)
HttpOutcomes ==
    {[kind |-> "network_error"]}
    \cup [kind : {"response"}, status : {500}, body : {<<>>}]
    \cup [kind : {"response"}, status : {200},
          body : { <<>>,
                   <<JDict([organic_results |-> JList(<<Hit1, Hit2>>)])>>,
                   <<JDict([organic_results |-> JList(<<>>)])>>,
                   <<JDict([error |-> JStr("quota")])>>,
                   <<JList(<<>>)>>,
                   <<JNull>>,
                   <<JDict([organic_results |-> JNull])>>,
                   <<JDict([organic_results |-> JStr("none")])>>,
                   <<JDict([organic_results |-> JList(<<Hit1, JStr("ad")>>)])>> }]

\* the try block of tool_search_web: the data, or the exception it catches
FetchJson(out) ==
    IF out.kind = "network_error" THEN Err("ConnectionError")
    ELSE IF out.status >= 400 THEN Err("HTTPError")
    ELSE IF out.body = <<>> THEN Err("JSONDecodeError")
    ELSE Ok(out.body[1])

\* res.get(key, default) inside the f-string
Field(res, key, default) ==
    IF key \in DOMAIN res.d THEN res.d[key].s ELSE default

\* one line of the result list
ResultLine(res) ==
    "* " \o Field(res, "title", "No title") \o " - " \o Field(res, "snippet", "")
         \o "\n  " \o Field(res, "link", "")

\* "\n".join(results)
RECURSIVE Join(_)
Join(lines) ==
    IF lines = <<>> THEN ""
    ELSE IF Len(lines) = 1 THEN lines[1]
    ELSE lines[1] \o "\n" \o Join(Tail(lines))

\* the part of tool_search_web after the try block
FormatResults(search, data) ==
    IF data.t # "dict" THEN Escapes("AttributeError")
    ELSE LET found == IF "organic_results" \in DOMAIN data.d
                      THEN data.d["organic_results"] ELSE JList(<<>>)
         IN  IF found.t = "null" THEN Escapes("TypeError")
             ELSE IF found.t = "str"
                  THEN IF found.s = "" THEN Str("Search results for '" \o search
                                                \o "':\n" \o "No results found.")
                       ELSE Escapes("AttributeError")
             ELSE LET first == SubSeq(found.l, 1, IF Len(found.l) < 6 THEN Len(found.l) ELSE 6)
                  IN  IF \E i \in 1..Len(first) : first[i].t # "dict"
                      THEN Escapes("AttributeError")
                      ELSE LET found_lines == [i \in 1..Len(first) |-> ResultLine(first[i])]
                           IN  Str("Search results for '" \o search \o "':\n"
                                   \o (IF found_lines = <<>> THEN "No results found."
                                       ELSE Join(found_lines)))

\* bad in code
Contains(text, sub) ==
    \E i \in 1..(Len(text) - Len(sub) + 1) : SubSeq(text, i, i + Len(sub) - 1) = sub

LongCode ==
    "sum([1, 2, 3, 4, 5, 6, 7, 8, 9, 10, 11, 12, 13, 14, 15, 16, 17, 18, 19, 20, 21, 22, 23, 24, 25, 26, 27, 28])"

Codes == {"1+1", "1/0", "(", "rate * 2", "exit()", "quit()", "import os",
          "exec('x')", "().__class__", LongCode}

\* eval(code): the value as text, or the exception raised; base tells whether
\* the exception is an Exception or only a BaseException
eval(code) ==
    CASE code = "1+1" -> [ok |-> TRUE, value |-> "2"]
      [] code = "1/0" -> [ok |-> FALSE, error |-> "ZeroDivisionError", base |-> "Exception"]
      [] code = "(" -> [ok |-> FALSE, error |-> "SyntaxError", base |-> "Exception"]
      [] code \in {"exit()", "quit()"} ->
           [ok |-> FALSE, error |-> "SystemExit", base |-> "BaseException"]
      [] OTHER -> [ok |-> FALSE, error |-> "NameError", base |-> "Exception"]

Allowed(code) ==
    Len(code) < 100 /\ ~\E bad \in {"import", "exec", "__"} : Contains(code, bad)

tool_code_executor(code) ==
    IF ~Allowed(code) THEN Str("Code result: " \o "Code execution disabled for safety")
    ELSE LET e == eval(code) IN
         IF e.ok THEN Str("Code result: " \o e.value)
         ELSE IF e.base = "Exception" THEN Str("Code error: " \o e.error)
         ELSE Escapes(e.error)

tool_database_query(search) ==
    Str("Database results for query: " \o search
        \o "\n[Simulated data: Customer segments, transaction patterns, risk scores]")

tool_document_retriever(search) ==
    Str("Retrieved documents for: " \o search
        \o "\n[Doc1: Policy guidelines]\n[Doc2: Best practices]\n[Doc3: Case studies]")

tool_financial_analysis(params) ==
    Str("Financial analysis: " \o params
        \o "\nRisk Score: 0.3\nROI Projection: 12.5%\nMarket Volatility: Medium")

SimulatedTools == {"database_query", "document_retriever", "financial_analysis"}

ToolCalls ==
    [fn : {"tool"}, tool : {"search_web"} \cup SimulatedTools, arg : ToolQueries,
     at : {"start"}, result : {<<>>}]
    \cup [fn : {"tool"}, tool : {"code_executor"}, arg : Codes,
          at : {"start"}, result : {<<>>}]

InitTool ==
    /\ call \in ToolCalls
    /\ session = NoSession
    /\ pc = "idle"
    /\ runs = 0
    /\ query = ""
    /\ decomposition = <<>>
    /\ execution_plan = NoPlan
    /\ idx = 1
    /\ results = EmptyDict
    /\ frame = NoFrame
    /\ calls = 0
    /\ delegation = <<>>
    /\ delegation_history = <<>>
    /\ outcome = NoOutcome
    /\ hist_at_start = 0
    /\ counts = ZeroCounts
    /\ started = <<>>
    /\ made = <<>>
    /\ task_error = <<>>
    /\ replies = NoReplies
    /\ selections = <<>>

\* tool_search_web, the try block: the request, raise_for_status, resp.json()
SearchRequest(out) ==
    /\ call.fn = "tool" /\ call.tool = "search_web" /\ call.at = "start"
    /\ LET r == FetchJson(out) IN
       call' = IF r.ok
               THEN [fn |-> "tool", tool |-> call.tool, arg |-> call.arg,
                     at |-> "data", data |-> r.value, result |-> <<>>]
               ELSE [call EXCEPT !.at = "done",
                                 !.result = <<Str("SerpAPI error: " \o r.error)>>]
    /\ UNCHANGED <<OrchestrationVars, session>>

\* tool_search_web, after the try block: the result list and the return
SearchFormat ==
    /\ call.fn = "tool" /\ call.tool = "search_web" /\ call.at = "data"
    /\ call' = [call EXCEPT !.at = "done",
                            !.result = <<FormatResults(call.arg, call.data)>>]
    /\ UNCHANGED <<OrchestrationVars, session>>

CodeExecutor ==
    /\ call.fn = "tool" /\ call.tool = "code_executor" /\ call.at = "start"
    /\ call' = [call EXCEPT !.at = "done", !.result = <<tool_code_executor(call.arg)>>]
    /\ UNCHANGED <<OrchestrationVars, session>>

Simulated ==
    /\ call.fn = "tool" /\ call.tool \in SimulatedTools /\ call.at = "start"
    /\ call' = [call EXCEPT
                  !.at = "done",
                  !.result = << CASE call.tool = "database_query" ->
                                       tool_database_query(call.arg)
                                  [] call.tool = "document_retriever" ->
                                       tool_document_retriever(call.arg)
                                  [] call.tool = "financial_analysis" ->
                                       tool_financial_analysis(call.arg) >>]
    /\ UNCHANGED <<OrchestrationVars, session>>

NextTool ==
    \/ \E out \in HttpOutcomes : SearchRequest(out)
    \/ SearchFormat
    \/ CodeExecutor
    \/ Simulated

SpecTool == InitTool /\ [][NextTool]_vars

\* C22: each tool function returns a string for every string input and every
\* outcome of its external step (network error, HTTP error, non-JSON body, JSON
\* of an unexpected shape, code whose evaluation fails or exits): no exception
\* ever leaves a tool call.
C22_ToolsReturnStrings ==
    (call.fn = "tool" /\ call.at = "done") => call.result[1].kind = "string"


----------------------------------------------------------------------------
(* Which tasks a run executes, and when *)

\* the number of top-level execute calls made for a task id
TimesStarted(id) == Cardinality({i \in 1..Len(started) : started[i] = id})

\* C23: in every orchestration run that returns, each subtask of the
\* decomposition is executed exactly once (one top-level execute call per
\* subtask) and task_results holds exactly one entry per subtask, keyed by its id.
C23_EachSubtaskOnce ==
    Returned
    => /\ Len(started) = Len(Subtasks)
       /\ \A i \in 1..Len(Subtasks) : TimesStarted(Subtasks[i].id) = 1
       /\ DOMAIN results = SubtaskIds
       /\ Cardinality(DOMAIN results) = Len(Subtasks)


\* the subtask a top-level execute call was made for
StartedTask(i) == execution_plan.task_assignments[started[i]].task

\* C24: within an orchestration run, no subtask is executed before every
\* subtask named in its dependencies list has finished executing.  (Tasks run
\* one after the other, so a task has finished when a later one starts.)
C24_DependenciesFirst ==
    \A i \in 1..Len(started) :
       LET deps == StartedTask(i).dependencies IN
       \A d \in 1..Len(deps) : \E j \in 1..(i - 1) : started[j] = deps[d]


----------------------------------------------------------------------------
(* The agent select returns *)

\* C25: whenever select returns, the agent it returns is one of the candidates
\* it was given, whatever the model answers to the selection call.
C25_SelectedIsCandidate ==
    (SelectDone /\ call.result[1].ok)
    => \E i \in 1..Len(call.available_agents) :
          call.available_agents[i] = call.result[1].value.agent


----------------------------------------------------------------------------
(* The result record of a task *)

\* the decisions made so far for the task in execution, and those among them
\* that led to a hand-off
Chain == SubSeq(made, counts.chain_from + 1, Len(made))
HandOffs == {i \in 1..Len(Chain) : Chain[i].to_agent \in RegisteredNames}
LastHandOff == CHOOSE i \in HandOffs : \A j \in HandOffs : j <= i

\* C26: in every result record returned by a top-level execute call,
\* delegation_depth equals the number of honoured delegations in that task's
\* chain and lies in 0..max_depth, and agent is the last agent of the chain: the
\* to_agent of the last honoured delegation, or the starting agent when there
\* was none.
C26_ResultRecordOfChain ==
    [][ (pc = "agent_run" /\ counts'.finished = counts.finished + 1)
        => LET r == results'[started[Len(started)]] IN
           /\ r.delegation_depth = Cardinality(HandOffs)
           /\ 0 <= r.delegation_depth /\ r.delegation_depth <= max_depth
           /\ r.agent = IF HandOffs = {}
                        THEN execution_plan.task_assignments[started[Len(started)]].agent
                        ELSE Chain[LastHandOff].to_agent ]_vars

\* a task has finished after two hand-offs and one decision that was ignored
C26_Witness ==
    /\ counts.finished = 1
    /\ pc \in {"executing", "synthesis"}
    /\ Len(Chain) = 3
    /\ Cardinality(HandOffs) = 2
    /\ results[started[1]].delegation_depth = 2
    /\ results[started[1]].agent = Chain[LastHandOff].to_agent
    /\ results[started[1]].agent # execution_plan.task_assignments[started[1]].agent


----------------------------------------------------------------------------
(* An inquiry that fails *)

\* C27: when processing an inquiry raises, no turn is added and
\* user_preferences is not changed: the context is the same as before the
\* inquiry, and the loop goes on to read the next input (unless it is
\* interrupted from the keyboard while it prints the error).
C27_FailedInquiryLeavesContext ==
    /\ [](session.pc = "handling" => session.context = session.before[1])
    /\ [][ session.pc = "handling"
           => /\ session'.context = session.before[1]
              /\ session'.file \in {session.file, <<session.before[1]>>}
              /\ \/ session'.pc = "loop"
                 \/ session'.pc = "returned" /\ session'.ended_by = "interrupt" ]_vars

\* an inquiry that would have taught a preference fails after a completed turn
C27_Witness ==
    /\ session.pc = "handling"
    /\ session.pending = "plan my retirement"
    /\ session.completed = 1
    /\ Len(session.context.turns) = 1
    /\ session.context.turns[1].user_input = "Compare funds"
    /\ "interest" \notin DOMAIN session.context.user_preferences


----------------------------------------------------------------------------
(* The turns kept in the context *)

\* C28: after any sequence of add_turn calls, the context holds at most
\* max_context_turns turns, and they are the most recently added turns, in the
\* order in which they were added.
C28_LastTurnsKept ==
    LET turns == session.context.turns
        n == Len(session.log)
    IN  /\ Len(turns) <= max_context_turns
        /\ Len(turns) = IF n < max_context_turns THEN n ELSE max_context_turns
        /\ \A i \in 1..Len(turns) : turns[i] = session.log[n - Len(turns) + i]

\* the eleventh turn has pushed the first one out
C28_Witness ==
    /\ Len(session.log) = max_context_turns + 1
    /\ Len(session.context.turns) = max_context_turns
    /\ session.context.turns[1] = session.log[2]
    /\ session.context.turns[max_context_turns] = session.log[max_context_turns + 1]
    /\ session.log[1] # session.log[2]


----------------------------------------------------------------------------
(* putnam-evaluation-sonnet-3-7/batch_eval.py: batch_evaluate.  The main    *)
(* thread submits every problem, then takes the futures in submission order; *)
(* the pool's threads run solve_problem on the queued problems.             *)

\* batch_evaluate(..., max_workers=3, ...)
max_workers == 3

\* a problem of the input file; the last one lacks its 'solution'
Problems ==
    { [question_id |-> "A1", question_category |-> "algebra", solution |-> "42"],
      [question_id |-> "B2", question_category |-> "geometry", solution |-> "pi"],
      [question_id |-> "A3", question_category |-> "algebra"] }

ProblemLists == SeqsUpTo(Problems, MaxProblems)

\* solve_problem: the result it returns, or the exception that leaves it (the
\* except branch reads problem['solution'] again)
solve_problem(problem, api_ok) ==
    IF "solution" \notin DOMAIN problem THEN Err("KeyError")
    ELSE IF api_ok
    THEN Ok([problem_id |-> problem.question_id,
             category |-> problem.question_category, status |-> "success"])
    ELSE Ok([problem_id |-> problem.question_id,
             category |-> problem.question_category, status |-> "error",
             error |-> "APIError"])

\* the entry the except branch of batch_evaluate appends
ErrorEntry(problem, error) ==
    [problem_id |-> problem.question_id, status |-> "error", error |-> error]

\* one iteration of the loop over the futures: results after it
Collected(so_far, future, problem, save_ok) ==
    IF future.ok
    THEN IF save_ok THEN Append(so_far, future.value)
         ELSE Append(Append(so_far, future.value), ErrorEntry(problem, "OSError"))
    ELSE Append(so_far, ErrorEntry(problem, future.error))

\* sum(1 for r in results if r.get("status") == status)
CountStatus(entries, status) ==
    Cardinality({i \in 1..Len(entries) : entries[i].status = status})

BatchCalls ==
    [fn : {"batch"}, problems : ProblemLists, at : {"submit"}]

InitBatch ==
    /\ call \in BatchCalls
    /\ session = NoSession
    /\ pc = "idle"
    /\ runs = 0
    /\ query = ""
    /\ decomposition = <<>>
    /\ execution_plan = NoPlan
    /\ idx = 1
    /\ results = EmptyDict
    /\ frame = NoFrame
    /\ calls = 0
    /\ delegation = <<>>
    /\ delegation_history = <<>>
    /\ outcome = NoOutcome
    /\ hist_at_start = 0
    /\ counts = ZeroCounts
    /\ started = <<>>
    /\ made = <<>>
    /\ task_error = <<>>
    /\ replies = NoReplies
    /\ selections = <<>>

Pending == [state |-> "pending"]
Running == [state |-> "running"]
Done(r) == [state |-> "done", result |-> r]

\* executor.submit for every problem
Submit ==
    /\ call.fn = "batch" /\ call.at = "submit"
    /\ call' = [fn |-> "batch", problems |-> call.problems,
                at |-> IF call.problems = <<>> THEN "summary" ELSE "collect",
                futures |-> [j \in 1..Len(call.problems) |-> Pending],
                i |-> 1, results |-> <<>>, files |-> {}, summary |-> <<>>]
    /\ UNCHANGED <<OrchestrationVars, session>>

InBatch == call.fn = "batch" /\ call.at \in {"collect", "summary"}

\* a free thread of the pool takes the oldest queued problem
WorkerStart ==
    /\ InBatch
    /\ Cardinality({j \in 1..Len(call.futures) : call.futures[j] = Running}) < max_workers
    /\ \E j \in 1..Len(call.futures) :
         /\ call.futures[j] = Pending
         /\ \A h \in 1..(j - 1) : call.futures[h] # Pending
         /\ call' = [call EXCEPT !.futures[j] = Running]
    /\ UNCHANGED <<OrchestrationVars, session>>

\* solve_problem ends in one of the threads
WorkerFinish(j, api_ok) ==
    /\ InBatch
    /\ j \in 1..Len(call.futures)
    /\ call.futures[j] = Running
    /\ call' = [call EXCEPT !.futures[j] = Done(solve_problem(call.problems[j], api_ok))]
    /\ UNCHANGED <<OrchestrationVars, session>>

\* the main thread: future.result() of the next future returns or raises, the
\* result is appended and its file written, or the except branch appends
Collect(save_ok) ==
    /\ call.fn = "batch" /\ call.at = "collect"
    /\ call.futures[call.i].state = "done"
    /\ LET future == call.futures[call.i].result
           problem == call.problems[call.i]
       IN  call' = [call EXCEPT
                      !.results = Collected(@, future, problem, save_ok),
                      !.files = IF future.ok /\ save_ok
                                THEN @ \cup {future.value.problem_id} ELSE @,
                      !.i = @ + 1,
                      !.at = IF call.i = Len(call.problems) THEN "summary" ELSE "collect"]
    /\ UNCHANGED <<OrchestrationVars, session>>

\* all_results.json is written and batch_evaluate returns
Summarize ==
    /\ call.fn = "batch" /\ call.at = "summary"
    /\ call' = [call EXCEPT
                  !.at = "done",
                  !.summary = <<[problems_count |-> Len(call.problems),
                                 success_count |-> CountStatus(call.results, "success"),
                                 error_count |-> CountStatus(call.results, "error")]>>]
    /\ UNCHANGED <<OrchestrationVars, session>>

NextBatch ==
    \/ Submit
    \/ WorkerStart
    \/ \E j \in 1..MaxProblems, api_ok \in BOOLEAN : WorkerFinish(j, api_ok)
    \/ \E save_ok \in BOOLEAN : Collect(save_ok)
    \/ Summarize

SpecBatch == InitBatch /\ [][NextBatch]_vars

\* C29: batch_evaluate records exactly one result per submitted problem, in
\* the order in which the problems were submitted, for every interleaving and
\* completion order of the worker threads and whether solving or saving a
\* result succeeds or fails; hence success_count + error_count equals
\* problems_count in the summary it writes.
C29_OneResultPerProblem ==
    (call.fn = "batch" /\ call.at = "done")
    => /\ Len(call.results) = Len(call.problems)
       /\ \A j \in 1..Len(call.problems) :
             call.results[j].problem_id = call.problems[j].question_id
       /\ call.summary[1].success_count + call.summary[1].error_count
             = call.summary[1].problems_count


----------------------------------------------------------------------------
(* langgraph-cookbook/main.py: the code-generation graph.  call.node is the *)
(* node about to run; "decide" is the conditional edge after code_check.    *)

\* decide_to_finish
max_iterations == 3

Questions == {"How do I trace LangGraph?", "How do I log a metric?"}

\* what the chain gives back: a parsed code object whose imports and code
\* block are fine or not, or nothing parsed (<<>>)
Generations ==
    {<<>>} \cup {<<g>> : g \in [imports : {"fine", "broken"}, code : {"fine", "broken"}]}

\* the error message code_check finds: <<>> for none
CheckError(generation) ==
    IF generation.imports = "broken" THEN <<"Import error">>
    ELSE IF generation.code = "broken" THEN <<"Code execution error">>
    ELSE <<>>

\* mutant: one more try is allowed
decide_to_finish_Mut(error, iterations) ==
    IF error = "yes" /\ iterations <= max_iterations THEN "generate"
    ELSE IF error = "no" /\ "do not reflect" = "reflect" THEN "reflect"
    ELSE "finish"

decide_to_finish(error, iterations) ==
    IF error = "yes" /\ iterations < max_iterations THEN "generate"
    ELSE IF error = "no" /\ "do not reflect" = "reflect" THEN "reflect"
    ELSE "finish"

\* the mapping of add_conditional_edges
Edge(decision) ==
    CASE decision = "generate" -> "generate"
      [] decision = "reflect" -> "reflect"
      [] decision = "finish" -> "END"

\* solve_coding_question: the initial state, at START
GraphCalls ==
    [fn : {"graph"}, node : {"START"}, error : {"no"},
     messages : {<<[role |-> "human", content |-> q]>> : q \in Questions},
     generation : {<<>>}, iterations : {0}, generated : {0}]

InitGraph ==
    /\ call \in GraphCalls
    /\ session = NoSession
    /\ pc = "idle"
    /\ runs = 0
    /\ query = ""
    /\ decomposition = <<>>
    /\ execution_plan = NoPlan
    /\ idx = 1
    /\ results = EmptyDict
    /\ frame = NoFrame
    /\ calls = 0
    /\ delegation = <<>>
    /\ delegation_history = <<>>
    /\ outcome = NoOutcome
    /\ hist_at_start = 0
    /\ counts = ZeroCounts
    /\ started = <<>>
    /\ made = <<>>
    /\ task_error = <<>>
    /\ replies = NoReplies
    /\ selections = <<>>

\* the edge START -> generate
Start ==
    /\ call.fn = "graph" /\ call.node = "START"
    /\ call' = [call EXCEPT !.node = "generate"]
    /\ UNCHANGED <<OrchestrationVars, session>>

\* the generate node, then the edge generate -> code_check
Generate(gen) ==
    /\ call.fn = "graph" /\ call.node = "generate"
    /\ call' = [call EXCEPT !.generation = gen, !.iterations = @ + 1,
                            !.generated = @ + 1, !.node = "code_check"]
    /\ UNCHANGED <<OrchestrationVars, session>>

\* the code_check node; generation.imports raises when nothing was parsed
CodeCheck ==
    /\ call.fn = "graph" /\ call.node = "code_check"
    /\ IF call.generation = <<>>
       THEN call' = [call EXCEPT !.node = "raised"]
       ELSE LET error_msg == CheckError(call.generation[1]) IN
            call' = IF error_msg # <<>>
                    THEN [call EXCEPT
                            !.error = "yes",
                            !.messages = Append(@, [role |-> "assistant",
                                                    content |-> error_msg[1]]),
                            !.node = "decide"]
                    ELSE [call EXCEPT !.error = "no", !.node = "decide"]
    /\ UNCHANGED <<OrchestrationVars, session>>

\* the conditional edge after code_check
Decide ==
    /\ call.fn = "graph" /\ call.node = "decide"
    /\ call' = [call EXCEPT !.node = Edge(decide_to_finish(call.error, call.iterations))]
    /\ UNCHANGED <<OrchestrationVars, session>>

NextGraph ==
    \/ Start
    \/ \E gen \in Generations : Generate(gen)
    \/ CodeCheck
    \/ Decide

SpecGraph == InitGraph /\ [][NextGraph]_vars /\ WF_vars(NextGraph)

\* C30: for every sequence of code-check outcomes a run of the graph reaches
\* END after at most 3 generate steps: after a check, generate runs again only
\* if the check failed and iterations < 3, and the reflect node is never
\* entered.  (A run also ends when code_check raises on a generation that was
\* not parsed.)
C30_AtMostThreeGenerations ==
    /\ [](call.generated <= max_iterations /\ call.generated = call.iterations
          /\ call.node # "reflect")
    /\ [][ (call.node = "decide" /\ call'.node = "generate")
           => (call.error = "yes" /\ call.iterations < max_iterations) ]_vars
    /\ [][ call.node = "decide" => call'.node \in {"generate", "END"} ]_vars
    /\ <>(call.node \in {"END", "raised"})

\* three generations whose checks all failed, and the run is at END
C30_Witness ==
    /\ call.node = "END"
    /\ call.generated = max_iterations
    /\ call.error = "yes"
    /\ Len(call.messages) = max_iterations + 1

====
